---- MODULE Spec2Model ----
(***************************************************************************)
(* A model of the PLAID plate-layout solver (ConstraintSolver.solve and    *)
(* the helpers it calls) as a state machine.  One ConstraintSolver object  *)
(* is constructed in Init; solve calls are made on it one after another.   *)
(* A solve call is split where it blocks on the CP-SAT engine: the engine  *)
(* is an external component whose answer (status and, when accepted, any   *)
(* assignment satisfying the model's constraints) is a nondeterministic    *)
(* choice.                                                                 *)
(***************************************************************************)
EXTENDS Integers, Sequences, FiniteSets, TLC

VARIABLES
    self,          \* the ConstraintSolver's fields set by __init__
    genes,         \* solve argument: the gene list
    source_plate,  \* solve argument: the source plate
    timeout,       \* solve argument: timeout_seconds
    pc,            \* position of the solve call
    num_plates,    \* local of solve
    plate_idx,     \* loop variable of _solve_with_cpsat
    layouts,       \* local of _solve_with_cpsat: the layouts produced so far
    tiers,         \* ghost: the tier that produced each layout
    result,        \* the value solve returned
    picklist,      \* the last picklist request and the entries it returned
    invocations,   \* ghost: the tiers run in this call, with the time limit
                   \* handed to the engine (max_time_in_seconds)
    reference,     \* ghost: the layouts of the call before, when this call
                   \* repeats its arguments
    updated        \* the last update_layout request and the layout it returned

vars == <<self, genes, source_plate, timeout, pc, num_plates, plate_idx,
          layouts, tiers, result, picklist, invocations, reference, updated>>

-----------------------------------------------------------------------------
(* Bounds of the model *)

MaxGenes == 2       \* number of gene labels; the longest gene list
MaxEdge == 7        \* largest edge_empty_layers of a design

LabelNames == <<"A", "B", "C", "D">>
Labels == {LabelNames[i] : i \in 1..MaxGenes}

\* Designs use the edge values whose inner region is small: on a 96-well
\* plate 3 leaves 2 x 6 wells, 4 and 6 leave none (one dimension is 0), 5
\* leaves a negative dimension, 7 makes both dimensions negative.
EdgeValues == 3..MaxEdge

PlateTypes == {96}

\* Default replicate counts of a design.
ReplicateCounts == {1}

\* Per-gene overrides of the replicate count (gene_configs): none, or one
\* for gene "A": 0 asks for no well; 2 fits; 4 fits the inner region of 12
\* wells but not without adjacency; 13 does not fit.
OverrideReps == {0, 2, 4, 13}

\* Control counts of a design: none, two wells, or ten plates' worth.
ControlCounts == {2, 120}

\* Timeouts of a solve call, in seconds: the smallest one and the default.
Timeouts == {1, 30}

\* The largest number of samples one quadrant holds in the layouts handed to
\* the validator on a full-size plate.
MaxQuadrantSamples == 7

\* The plate kinds of PlateType, and the number of inner cells (the first
\* ones in row-major order) the one sample of a plate-kind layout may take.
PlateKinds == {96, 384, 1536}
MaxPlacedCells == 20

\* Transfer volumes, in units of 0.1 nL: the design's default (2.5 nL), the
\* per-gene volume of an override (5 nL) and the volume of a picklist
\* request (its default, 375 nL).
DesignVolumes == {25}
OverrideVolumes == {50}
RequestVolumes == {3750}

-----------------------------------------------------------------------------
(* Plate geometry and the design model *)

None == "None"
NoPos == <<>>

PlateDimensions(pt) ==
    CASE pt = 96 -> <<8, 12>>
      [] pt = 384 -> <<16, 24>>
      [] pt = 1536 -> <<32, 48>>

get_replicates_for_gene(params, gene) ==
    IF gene \in DOMAIN params.gene_configs
    THEN params.gene_configs[gene].replicates
    ELSE params.replicates

get_volume_for_gene(params, gene) ==
    IF gene \in DOMAIN params.gene_configs
    THEN params.gene_configs[gene].transfer_volume
    ELSE params.transfer_volume

RECURSIVE SumSeq(_)
SumSeq(s) == IF s = <<>> THEN 0 ELSE Head(s) + SumSeq(Tail(s))

Max(a, b) == IF a >= b THEN a ELSE b
Min(a, b) == IF a <= b THEN a ELSE b
Abs(a) == IF a >= 0 THEN a ELSE -a

\* math.ceil(a / b) of Python for integers a and b # 0: the true quotient,
\* rounded up (towards plus infinity), whatever the signs.
CeilDiv(a, b) ==
    IF b > 0 THEN -((-a) \div b) ELSE -(a \div (-b))

\* a % b of Python: the result has the sign of the divisor b (b # 0).
PyMod(a, b) ==
    IF b > 0 THEN a % b ELSE -((-a) % (-b))

\* int(x) of Python for x = n / d with d > 0: truncation towards zero.
TruncDiv(n, d) == IF n >= 0 THEN n \div d ELSE -((-n) \div d)

\* f"{chr(ord('A') + row)}{col + 1:02d}" as the sequence of character codes.
RECURSIVE Digits(_)
Digits(n) == IF n < 10 THEN <<48 + n>> ELSE Digits(n \div 10) \o <<48 + (n % 10)>>

_format_position(row, col) ==
    <<65 + row>> \o (IF col + 1 < 10 THEN <<48>> ELSE <<>>) \o Digits(col + 1)

\* Fault variant of find_well: the last well with the label is returned.
find_well_Last(sp, gene) ==
    IF \E i \in 1..Len(sp.wells) : sp.wells[i].gene_symbol = gene
    THEN CHOOSE i \in 1..Len(sp.wells) :
            /\ sp.wells[i].gene_symbol = gene
            /\ \A j \in (i + 1)..Len(sp.wells) : sp.wells[j].gene_symbol # gene
    ELSE 0

\* SourcePlate.find_well: the index of the first well of the plate with the
\* label, 0 for Python's None.
find_well(sp, gene) ==
    IF \E i \in 1..Len(sp.wells) : sp.wells[i].gene_symbol = gene
    THEN CHOOSE i \in 1..Len(sp.wells) :
            /\ sp.wells[i].gene_symbol = gene
            /\ \A j \in 1..(i - 1) : sp.wells[j].gene_symbol # gene
    ELSE 0

\* ConstraintSolver.__init__
NewSolver(params) ==
    LET dims == PlateDimensions(params.plate_type)
        rows == dims[1]
        cols == dims[2]
        edge == params.edge_empty_layers
    IN [params |-> params,
        rows |-> rows,
        cols |-> cols,
        edge |-> edge,
        inner_rows |-> rows - 2 * edge,
        inner_cols |-> cols - 2 * edge,
        available_wells |-> (rows - 2 * edge) * (cols - 2 * edge)]

-----------------------------------------------------------------------------
(* Layout wells *)

EmptyWell(r, c) ==
    [position |-> _format_position(r, c), row |-> r, col |-> c,
     content_type |-> "empty", gene_symbol |-> None, replicate_index |-> -1,
     source_plate |-> None, source_well |-> NoPos]

SampleWell(sp, r, c, gene, rep) ==
    LET sw == find_well(sp, gene)
    IN [position |-> _format_position(r, c), row |-> r, col |-> c,
        content_type |-> "sample", gene_symbol |-> gene, replicate_index |-> rep,
        source_plate |-> sp.barcode,
        source_well |-> IF sw # 0 THEN sp.wells[sw].position ELSE NoPos]

\* for r in range(lo_r, hi_r): for c in range(lo_c, hi_c): the cells in
\* row-major order (none when a range is empty).
RowMajor(lo_r, hi_r, lo_c, hi_c) ==
    IF hi_r <= lo_r \/ hi_c <= lo_c THEN <<>>
    ELSE [i \in 1..((hi_r - lo_r) * (hi_c - lo_c)) |->
            <<lo_r + ((i - 1) \div (hi_c - lo_c)),
              lo_c + ((i - 1) % (hi_c - lo_c))>>]

IsEdge(s, r, c) ==
    \/ r < s.edge
    \/ r >= s.rows - s.edge
    \/ c < s.edge
    \/ c >= s.cols - s.edge

\* "Add edge wells": the loop that opens every layout builder.
EdgeCells(s) ==
    LET keep(cell) == IsEdge(s, cell[1], cell[2])
    IN SelectSeq(RowMajor(0, s.rows, 0, s.cols), keep)

\* inner_positions: range(edge, rows - edge) x range(edge, cols - edge)
InnerCells(s) ==
    RowMajor(s.edge, s.rows - s.edge, s.edge, s.cols - s.edge)

\* The empty wells the "Add edge wells" loop appends, for a plate of the
\* given dimensions and edge.
EdgeWellsOf(rows, cols, edge) ==
    LET edge_cells == EdgeCells([rows |-> rows, cols |-> cols, edge |-> edge])
    IN [i \in 1..Len(edge_cells) |-> EmptyWell(edge_cells[i][1], edge_cells[i][2])]

\* The loop's result for every design of the model, computed once.
EdgeWellsTable ==
    [pt \in PlateTypes |->
        [edge \in EdgeValues |->
            EdgeWellsOf(PlateDimensions(pt)[1], PlateDimensions(pt)[2], edge)]]

EdgeWells(s) == EdgeWellsTable[s.params.plate_type][s.edge]

\* F(v), with v evaluated once however often F refers to its argument.
Once(v, F(_)) == CHOOSE out \in {F(x) : x \in {v}} : TRUE

SeqToSet(q) == {q[i] : i \in 1..Len(q)}

\* The sample list of a plate: one (g_idx, rep, gene) per replicate, genes in
\* list order (g_idx is 0-based as in enumerate).
RECURSIVE SamplesFrom(_, _, _)
SamplesFrom(params, gs, g_idx) ==
    IF g_idx >= Len(gs) THEN <<>>
    ELSE LET gene == gs[g_idx + 1]
             gene_reps == get_replicates_for_gene(params, gene)
         IN [rep \in 1..Max(gene_reps, 0) |->
                [g_idx |-> g_idx, rep |-> rep - 1, gene |-> gene]]
            \o SamplesFrom(params, gs, g_idx + 1)

Samples(params, gs) == SamplesFrom(params, gs, 0)

\* Fault variant of PlateLayout: the barcode carries the 0-based index.
PlateLayout_ZeroBased(s, plate_index, wells) ==
    [plate_barcode |-> <<"plate_", plate_index>>,
     plate_type |-> s.params.plate_type,
     plate_index |-> plate_index,
     wells |-> wells]

PlateLayout(s, plate_index, wells) ==
    [plate_barcode |-> <<"plate_", plate_index + 1>>,
     plate_type |-> s.params.plate_type,
     plate_index |-> plate_index,
     wells |-> wells]

-----------------------------------------------------------------------------
(* The CP-SAT models of a plate and the engine's answers *)

\* len(gene_samples): the number of instances of the gene at index g.
GeneReps(samples, g) ==
    Cardinality({i \in 1..Len(samples) : samples[i].g_idx = g})

\* AddBoolOr([row_far, col_far]): abs_row_diff >= 2 or abs_col_diff >= 2.
NotAdjacent(p, q) ==
    \/ Abs(p[1] - q[1]) >= 2
    \/ Abs(p[2] - q[2]) >= 2

\* The constraints the model puts on instances i and j placed on p and q:
\* AllDifferent(position_vars), non-adjacency within one gene index and, in
\* the full model only, AllDifferent of the gene's rows (columns) when its
\* replicate count is at most inner_rows (inner_cols).
\* Fault variant of PairOK: the model without AddAllDifferent(position_vars).
PairOK_NoAllDifferent(s, samples, dispersion, i, j, p, q) ==
    samples[i].g_idx = samples[j].g_idx =>
        LET gene_reps == GeneReps(samples, samples[i].g_idx)
        IN /\ NotAdjacent(p, q)
           /\ (dispersion /\ gene_reps <= s.inner_rows) => p[1] # q[1]
           /\ (dispersion /\ gene_reps <= s.inner_cols) => p[2] # q[2]

PairOK(s, samples, dispersion, i, j, p, q) ==
    /\ p[1] * s.cols + p[2] # q[1] * s.cols + q[2]
    /\ samples[i].g_idx = samples[j].g_idx =>
          LET gene_reps == GeneReps(samples, samples[i].g_idx)
          IN /\ NotAdjacent(p, q)
             /\ (dispersion /\ gene_reps <= s.inner_rows) => p[1] # q[1]
             /\ (dispersion /\ gene_reps <= s.inner_cols) => p[2] # q[2]

\* The assignments of the first k instances that satisfy the model: each
\* instance takes a row in [edge, rows - edge - 1] and a column in
\* [edge, cols - edge - 1].
RECURSIVE Assignments(_, _, _, _)
Assignments(s, samples, dispersion, k) ==
    IF k = 0 THEN {<<>>}
    ELSE UNION {
            {Append(a, p) :
                p \in {q \in SeqToSet(InnerCells(s)) :
                          \A i \in 1..(k - 1) :
                              PairOK(s, samples, dispersion, i, k, a[i], q)}}
            : a \in Assignments(s, samples, dispersion, k - 1)}

\* The solutions of the full model (with the dispersion constraints) and of
\* the relaxed model (without them).
FullSolutions(s, gs) ==
    UNION {Assignments(s, samples, TRUE, Len(samples)) :
              samples \in {Samples(s.params, gs)}}

RelaxedSolutions(s, gs) ==
    UNION {Assignments(s, samples, FALSE, Len(samples)) :
              samples \in {Samples(s.params, gs)}}

\* _extract_solution_from_vars: the edge wells, the sample wells in instance
\* order, then the inner cells no instance took.  edge_wells is EdgeWells(s),
\* which the callers compute once for all the solutions of a model.
_extract_solution_from_vars(s, edge_wells, sol, samples, sp, plate_index) ==
    LET free(cell) == \A i \in 1..Len(sol) : sol[i] # cell
        rest == SelectSeq(InnerCells(s), free)
    IN PlateLayout(s, plate_index,
           edge_wells
           \o [i \in 1..Len(samples) |->
               SampleWell(sp, sol[i][1], sol[i][2], samples[i].gene, samples[i].rep)]
           \o [i \in 1..Len(rest) |-> EmptyWell(rest[i][1], rest[i][2])])

-----------------------------------------------------------------------------
(* The placement heuristic *)

\* golden_ratio = 1.618033988749895 and its square as fractions of PhiDen.
\* For the gene indices, replicate indices and inner dimensions of this
\* model the truncated products below equal the floating-point ones.
PhiNum == 1618034
PhiSqNum == 2618034
PhiDen == 1000000

\* int((a * phi + b * phi * phi) * inner) % inner
GoldenOffset(a, b, inner) ==
    PyMod(TruncDiv((a * PhiNum + b * PhiSqNum) * inner, PhiDen), inner)

Target(s, g_idx, rep) ==
    <<s.edge + GoldenOffset(g_idx, rep, s.inner_rows),
      s.edge + GoldenOffset(rep, g_idx, s.inner_cols)>>

\* (r, c) in placement; a placement is the sequence of the dict's items in
\* insertion order.
Occupied(placement, r, c) ==
    \E i \in 1..Len(placement) : placement[i].r = r /\ placement[i].c = c

_has_adjacent_same_gene(r, c, gene, placement) ==
    \E i \in 1..Len(placement) :
        /\ placement[i].gene = gene
        /\ Abs(placement[i].r - r) <= 1
        /\ Abs(placement[i].c - c) <= 1
        /\ <<placement[i].r, placement[i].c>> # <<r, c>>

\* The square-shell search visits the offsets (dr, dc) of ring `radius` for
\* radius = 0, 1, ... < max(inner_rows, inner_cols), dr ascending, then dc
\* ascending: the order of the triples (radius, dr, dc).
VisitedBefore(t, c1, c2) ==
    LET k1 == <<Max(Abs(c1[1] - t[1]), Abs(c1[2] - t[2])), c1[1], c1[2]>>
        k2 == <<Max(Abs(c2[1] - t[1]), Abs(c2[2] - t[2])), c2[1], c2[2]>>
    IN \/ k1[1] < k2[1]
       \/ k1[1] = k2[1] /\ k1[2] < k2[2]
       \/ k1[1] = k2[1] /\ k1[2] = k2[2] /\ k1[3] <= k2[3]

\* Fault variant of SpiralCandidates: the search stops at the smaller of the
\* inner dimensions (range(min(inner_rows, inner_cols))).
SpiralCandidates_ShortSearch(s, placement, t, gene) ==
    {cell \in SeqToSet(InnerCells(s)) :
        /\ Max(Abs(cell[1] - t[1]), Abs(cell[2] - t[2]))
              < Min(s.inner_rows, s.inner_cols)
        /\ ~Occupied(placement, cell[1], cell[2])
        /\ ~_has_adjacent_same_gene(cell[1], cell[2], gene, placement)}

\* The wells the search can take: inside the edge ring, within the largest
\* radius, unoccupied, and with no same-gene neighbour.
SpiralCandidates(s, placement, t, gene) ==
    {cell \in SeqToSet(InnerCells(s)) :
        /\ Max(Abs(cell[1] - t[1]), Abs(cell[2] - t[2]))
              < Max(s.inner_rows, s.inner_cols)
        /\ ~Occupied(placement, cell[1], cell[2])
        /\ ~_has_adjacent_same_gene(cell[1], cell[2], gene, placement)}

\* Fault variant of ForcedCells: the forced placement ranges over the whole
\* plate instead of the inner region.
ForcedCells_WholePlate(s, placement) ==
    LET free(cell) == ~Occupied(placement, cell[1], cell[2])
    IN SelectSeq(RowMajor(0, s.rows, 0, s.cols), free)

\* "if not placed": the first unoccupied inner well in row-major order.
ForcedCells(s, placement) ==
    LET free(cell) == ~Occupied(placement, cell[1], cell[2])
    IN SelectSeq(InnerCells(s), free)

\* One iteration of the placement loop: the instance goes to the first well
\* the search accepts, else to the first free well, else nowhere.
\* Fault variant of PlaceOn: no forced placement when the search finds no
\* well.
PlaceOn_NoForced(placement, inst, t, cands, forced) ==
    LET item(cell) == [r |-> cell[1], c |-> cell[2],
                       gene |-> inst.gene, rep |-> inst.rep]
    IN IF cands # {}
       THEN Append(placement,
                item(CHOOSE c1 \in cands : \A c2 \in cands : VisitedBefore(t, c1, c2)))
       ELSE placement

\* The instance goes to the first candidate the search visits, else to the
\* first free well, else nowhere.
PlaceOn(placement, inst, t, cands, forced) ==
    LET item(cell) == [r |-> cell[1], c |-> cell[2],
                       gene |-> inst.gene, rep |-> inst.rep]
    IN IF cands # {}
       THEN Append(placement,
                item(CHOOSE c1 \in cands : \A c2 \in cands : VisitedBefore(t, c1, c2)))
       ELSE IF forced # <<>>
       THEN Append(placement, item(forced[1]))
       ELSE placement

PlaceInstance(s, placement, inst) ==
    Once(Target(s, inst.g_idx, inst.rep), LAMBDA t :
        Once(SpiralCandidates(s, placement, t, inst.gene), LAMBDA cands :
            PlaceOn(placement, inst, t, cands, ForcedCells(s, placement))))

\* The placement loop from instance k on.
RECURSIVE PlaceAll(_, _, _, _)
PlaceAll(s, samples, k, placement) ==
    IF k > Len(samples) THEN placement
    ELSE Once(samples[k], LAMBDA inst :
             Once(PlaceInstance(s, placement, inst), LAMBDA next :
                 PlaceAll(s, samples, k + 1, next)))

\* _solve_heuristic_improved: the edge wells, the placed instances in
\* placement order, then the inner cells left free.
\* "Create wells from placement" and "Fill remaining with empty".
PlacementLayout(s, sp, plate_index, placement) ==
    LET rest == ForcedCells(s, placement)
    IN PlateLayout(s, plate_index,
           EdgeWells(s)
           \o [i \in 1..Len(placement) |->
               SampleWell(sp, placement[i].r, placement[i].c,
                          placement[i].gene, placement[i].rep)]
           \o [i \in 1..Len(rest) |-> EmptyWell(rest[i][1], rest[i][2])])

_solve_heuristic_improved(s, gs, sp, plate_index) ==
    Once(Samples(s.params, gs), LAMBDA samples :
        Once(PlaceAll(s, samples, 1, <<>>), LAMBDA placement :
            PlacementLayout(s, sp, plate_index, placement)))

-----------------------------------------------------------------------------
(* The layout validator *)

\* Fault variant of NeighbourOffsets: the four orthogonal neighbours only.
NeighbourOffsets_Orthogonal ==
    <<<<-1, 0>>, <<-1, 0>>, <<-1, 0>>, <<0, -1>>,
      <<0, 1>>, <<1, 0>>, <<1, 0>>, <<1, 0>>>>

NeighbourOffsets ==
    <<<<-1, -1>>, <<-1, 0>>, <<-1, 1>>, <<0, -1>>,
      <<0, 1>>, <<1, -1>>, <<1, 0>>, <<1, 1>>>>

\* pos_map.get((r, c)): the index of the last well of the list at (r, c)
\* (a later well of the dict comprehension replaces an earlier one), 0 when
\* there is none.
PosMapGet(wells, r, c) ==
    LET at == {i \in 1..Len(wells) : wells[i].row = r /\ wells[i].col = c}
    IN IF at = {} THEN 0 ELSE CHOOSE i \in at : \A j \in at : j <= i

\* a <= b for Python strings given as sequences of character codes.
RECURSIVE StrLeq(_, _)
StrLeq(a, b) ==
    IF a = <<>> THEN TRUE
    ELSE IF b = <<>> THEN FALSE
    ELSE IF Head(a) # Head(b) THEN Head(a) < Head(b)
    ELSE StrLeq(Tail(a), Tail(b))

\* tuple(sorted([p, q]))
SortedPair(p, q) == IF StrLeq(p, q) THEN <<p, q>> ELSE <<q, p>>

\* The indices of the wells the validator's loops act on: content type
\* SAMPLE (a sample well always carries its gene symbol).
SampleIndices(wells) ==
    LET is_sample(i) == wells[i].content_type = "sample" /\ wells[i].gene_symbol # ""
    IN SelectSeq([i \in 1..Len(wells) |-> i], is_sample)

\* "neighbor and neighbor.content_type == SAMPLE and neighbor.gene_symbol ==
\* well.gene_symbol": the index of the neighbour pos_map holds at (r, c) when
\* it is such a well, else 0.  pos_map can hold a sample at (r, c) only if
\* some sample well lies there, so the map is consulted only then.
SameGeneNeighbour(wells, sample_idx, r, c, gene) ==
    IF \E j \in 1..Len(sample_idx) :
          wells[sample_idx[j]].row = r /\ wells[sample_idx[j]].col = c
    THEN LET n == PosMapGet(wells, r, c)
         IN IF wells[n].content_type = "sample" /\ wells[n].gene_symbol = gene
            THEN n ELSE 0
    ELSE 0

\* Fault variant of AdjacentVisit: the violation is appended with severity
\* "error".
AdjacentVisit_Error(wells, sample_idx, j, o, acc) ==
    Once(wells[sample_idx[j]], LAMBDA well :
      Once(NeighbourOffsets[o], LAMBDA d :
        Once(SameGeneNeighbour(wells, sample_idx, well.row + d[1],
                               well.col + d[2], well.gene_symbol), LAMBDA n :
          IF n = 0 THEN acc
          ELSE Once(SortedPair(well.position, wells[n].position), LAMBDA pair :
                 IF \E i \in 1..Len(acc) : acc[i].affected_wells = pair
                 THEN acc
                 ELSE Append(acc, [constraint_name |-> "no_adjacent_same_gene",
                                   description |-> <<well.gene_symbol>>,
                                   severity |-> "error",
                                   affected_wells |-> pair])))))

\* One visit of the loops of _check_no_adjacent: sample well number j and
\* neighbour offset number o.  acc holds the violations appended so far, in
\* order; the value is acc after the visit.
AdjacentVisit(wells, sample_idx, j, o, acc) ==
    Once(wells[sample_idx[j]], LAMBDA well :
      Once(NeighbourOffsets[o], LAMBDA d :
        Once(SameGeneNeighbour(wells, sample_idx, well.row + d[1],
                               well.col + d[2], well.gene_symbol), LAMBDA n :
          IF n = 0 THEN acc
          ELSE Once(SortedPair(well.position, wells[n].position), LAMBDA pair :
                 IF \E i \in 1..Len(acc) : acc[i].affected_wells = pair
                 THEN acc
                 ELSE Append(acc, [constraint_name |-> "no_adjacent_same_gene",
                                   description |-> <<well.gene_symbol>>,
                                   severity |-> "warning",
                                   affected_wells |-> pair])))))

\* "for dr, dc in [...]": the inner loop for sample well j from offset o on.
RECURSIVE OffsetScan(_, _, _, _, _)
OffsetScan(wells, sample_idx, j, o, acc) ==
    IF o > Len(NeighbourOffsets) THEN acc
    ELSE Once(o + 1, LAMBDA o1 :
           Once(AdjacentVisit(wells, sample_idx, j, o, acc), LAMBDA next :
             OffsetScan(wells, sample_idx, j, o1, next)))

\* "for well in sample_wells": the outer loop from sample well j on.
RECURSIVE AdjacentScan(_, _, _, _)
AdjacentScan(wells, sample_idx, j, acc) ==
    IF j > Len(sample_idx) THEN acc
    ELSE Once(j + 1, LAMBDA j1 :
           Once(OffsetScan(wells, sample_idx, j, 1, acc), LAMBDA next :
             AdjacentScan(wells, sample_idx, j1, next)))

\* _check_no_adjacent on the wells, given the indices of its sample wells.
CheckNoAdjacentOn(wells, sample_idx) == AdjacentScan(wells, sample_idx, 1, <<>>)

_check_no_adjacent(layout) ==
    CheckNoAdjacentOn(layout.wells, SampleIndices(layout.wells))

\* The number of sample wells of quadrant q = (0 if row < mid_r else 2) +
\* (0 if col < mid_c else 1).
QuadrantCount(s, wells, sample_idx, q) ==
    LET mid_r == s.rows \div 2
        mid_c == s.cols \div 2
    IN Cardinality({j \in 1..Len(sample_idx) :
          (IF wells[sample_idx[j]].row < mid_r THEN 0 ELSE 2)
            + (IF wells[sample_idx[j]].col < mid_c THEN 0 ELSE 1) = q})

\* Fault variant of QuadrantVerdict: the "min(quadrants) > 0" test is left out.
QuadrantVerdict_NoMinTest(q0, q1, q2, q3) ==
    LET lo == Min(Min(q0, q1), Min(q2, q3))
        hi == Max(Max(q0, q1), Max(q2, q3))
    IN IF hi - lo > 5
       THEN <<[constraint_name |-> "quadrant_balance",
               description |-> <<q0, q1, q2, q3>>,
               severity |-> "warning",
               affected_wells |-> <<>>]>>
       ELSE <<>>

\* The test on the four counts and the violation it yields.
QuadrantVerdict(q0, q1, q2, q3) ==
    LET lo == Min(Min(q0, q1), Min(q2, q3))
        hi == Max(Max(q0, q1), Max(q2, q3))
    IN IF lo > 0 /\ hi - lo > 5
       THEN <<[constraint_name |-> "quadrant_balance",
               description |-> <<q0, q1, q2, q3>>,
               severity |-> "warning",
               affected_wells |-> <<>>]>>
       ELSE <<>>

\* _check_quadrant_balance on the wells, given the indices of its sample
\* wells (with no sample well min(quadrants) is 0).
CheckQuadrantOn(s, wells, sample_idx) ==
    IF sample_idx = <<>> THEN <<>>
    ELSE QuadrantVerdict(QuadrantCount(s, wells, sample_idx, 0),
                         QuadrantCount(s, wells, sample_idx, 1),
                         QuadrantCount(s, wells, sample_idx, 2),
                         QuadrantCount(s, wells, sample_idx, 3))

_check_quadrant_balance(s, layout) ==
    CheckQuadrantOn(s, layout.wells, SampleIndices(layout.wells))

\* Both checks of one layout.
CheckLayoutOn(s, wells, sample_idx) ==
    CheckNoAdjacentOn(wells, sample_idx) \o CheckQuadrantOn(s, wells, sample_idx)

RECURSIVE ValidateFrom(_, _, _)
ValidateFrom(s, ls, k) ==
    IF k > Len(ls) THEN <<>>
    ELSE Once(ls[k].wells, LAMBDA wells :
             Once(SampleIndices(wells), LAMBDA sample_idx :
                 CheckLayoutOn(s, wells, sample_idx)))
         \o ValidateFrom(s, ls, k + 1)

_validate_layouts(s, ls) == ValidateFrom(s, ls, 1)

-----------------------------------------------------------------------------
(* Inputs *)

\* The gene lists handed to solve: the lists of distinct labels (the callers
\* pass SourcePlate.get_genes(), the labels of a set), the empty list included.
RECURSIVE DistinctSeqs(_, _)
DistinctSeqs(S, n) ==
    IF n = 0 THEN {<<>>}
    ELSE LET shorter == DistinctSeqs(S, n - 1)
         IN shorter \cup
            UNION {{Append(q, x) : x \in S \ SeqToSet(q)} :
                      q \in {p \in shorter : Len(p) = n - 1}}

LabelIndex(g) == CHOOSE i \in 1..Len(LabelNames) : LabelNames[i] = g

\* The gene lists of a solve call: the lists of distinct labels, up to
\* MaxGenes long, in label order or in reverse label order (the callers pass
\* SourcePlate.get_genes(), a list of distinct labels in no fixed order).
GeneLists ==
    {q \in DistinctSeqs(Labels, MaxGenes) :
        \/ \A i \in 1..(Len(q) - 1) : LabelIndex(q[i]) < LabelIndex(q[i + 1])
        \/ \A i \in 1..(Len(q) - 1) : LabelIndex(q[i]) > LabelIndex(q[i + 1])}

ControlLists ==
    {<<>>} \cup {<<[type |-> "positive", name |-> "ctrl", count |-> n]>> : n \in ControlCounts}

GeneConfigs ==
    {<<>>} \cup {[g \in {"A"} |-> [replicates |-> r, transfer_volume |-> v]] :
                    r \in OverrideReps, v \in OverrideVolumes}

\* The designs of the model: a design carries controls or per-gene overrides,
\* not both.
Designs ==
    {d \in [plate_type : PlateTypes,
            replicates : ReplicateCounts,
            edge_empty_layers : EdgeValues,
            controls : ControlLists,
            transfer_volume : DesignVolumes,
            gene_configs : GeneConfigs] :
        d.controls = <<>> \/ d.gene_configs = <<>>}

\* "A01" and "A02" both hold gene A; no well holds gene B.
SourcePlates ==
    {[barcode |-> "SRC", plate_type |-> "384PP_AQ_BP",
      wells |-> <<[position |-> <<65, 48, 49>>, gene_symbol |-> "A"],
                  [position |-> <<65, 48, 50>>, gene_symbol |-> "A"]>>]}

NoSourcePlate == [barcode |-> None, plate_type |-> None, wells |-> <<>>]

\* The source plates of a picklist request: the plate of the solve call, and
\* a plate "SRC2" that holds gene B (twice) and then gene A.
PicklistSourcePlates ==
    SourcePlates \cup
    {[barcode |-> "SRC2", plate_type |-> "384PP_AQ_BP",
      wells |-> <<[position |-> <<66, 48, 49>>, gene_symbol |-> "B"],
                  [position |-> <<66, 48, 50>>, gene_symbol |-> "B"],
                  [position |-> <<67, 48, 49>>, gene_symbol |-> "A"]>>]}

NoPicklist == [source_plate |-> NoSourcePlate, transfer_volume |-> 0, entries |-> <<>>]

\* No call before this one with the same arguments.
NoReference == [tracked |-> FALSE, layouts |-> <<>>]

\* No update_layout request.
NoUpdate == [requested |-> FALSE]

\* One run of a tier for the plate at index plate: the full or the relaxed
\* model handed to the engine with max_time_in_seconds = limit, or the
\* heuristic (which has no time limit).
Invocation(plate, tier, limit) == [plate |-> plate, tier |-> tier, limit |-> limit]

NoResult ==
    [status |-> "none", layouts |-> <<>>, violations |-> <<>>,
     relaxed_constraints |-> <<>>, message |-> None]

\* SolveResult(...): relaxed_constraints is never passed and keeps its
\* default, the empty list.
SolveResult(status, ls, violations, message) ==
    [status |-> status, layouts |-> ls, violations |-> violations,
     relaxed_constraints |-> <<>>, message |-> message]

-----------------------------------------------------------------------------
(* solve *)

MaxPlates == 10

total_needed(params, gs) ==
    SumSeq([i \in 1..Len(gs) |-> get_replicates_for_gene(params, gs[i])])
    + SumSeq([i \in 1..Len(params.controls) |-> params.controls[i].count])

\* plate_genes of the plate at index idx: the whole list on the single-plate
\* path, genes[start:end] on the multi-plate path.
PlateGenes(gs, np, idx) ==
    IF np = 1 THEN gs
    ELSE LET genes_per_plate == CeilDiv(Len(gs), np)
             start == idx * genes_per_plate
             end == Min(start + genes_per_plate, Len(gs))
         IN IF start >= end THEN <<>> ELSE SubSeq(gs, start + 1, end)

\* The time limit handed to the plate's engine.
PlateTimeout(t, np) == IF np = 1 THEN t ELSE t \div np

Init ==
    /\ self \in {NewSolver(params) : params \in Designs}
    /\ genes = <<>>
    /\ source_plate = NoSourcePlate
    /\ timeout = 0
    /\ pc = "idle"
    /\ num_plates = 0
    /\ plate_idx = 0
    /\ layouts = <<>>
    /\ tiers = <<>>
    /\ result = NoResult
    /\ picklist = NoPicklist
    /\ invocations = <<>>
    /\ reference = NoReference
    /\ updated = NoUpdate

CanCall == pc \in {"idle", "done", "raised", "picked"}

\* solve called on a solver with available_wells = 0: the division of line 48
\* raises ZeroDivisionError before the try block, so the call returns nothing.
SolveRaises(gs, sp, t) ==
    /\ CanCall
    /\ self.available_wells = 0
    /\ genes' = gs /\ source_plate' = sp /\ timeout' = t
    /\ pc' = "raised"
    /\ num_plates' = 0 /\ plate_idx' = 0
    /\ layouts' = <<>> /\ tiers' = <<>>
    /\ result' = NoResult
    /\ picklist' = NoPicklist
    /\ invocations' = <<>>
    /\ reference' = NoReference
    /\ updated' = NoUpdate
    /\ UNCHANGED self

\* solve with num_plates > 10: FAILED at once.
\* Fault variant of SolveCapExceeded: the cap test is num_plates >= 10.
SolveCapExceeded_AtTen(gs, sp, t) ==
    /\ CanCall
    /\ self.available_wells # 0
    /\ CeilDiv(total_needed(self.params, gs), self.available_wells) >= MaxPlates
    /\ genes' = gs /\ source_plate' = sp /\ timeout' = t
    /\ pc' = "done"
    /\ num_plates' = CeilDiv(total_needed(self.params, gs), self.available_wells)
    /\ plate_idx' = 0
    /\ layouts' = <<>> /\ tiers' = <<>>
    /\ result' = SolveResult("failed", <<>>, <<>>, "plate_limit")
    /\ picklist' = NoPicklist
    /\ invocations' = <<>>
    /\ reference' = NoReference
    /\ updated' = NoUpdate
    /\ UNCHANGED self

SolveCapExceeded(gs, sp, t) ==
    /\ CanCall
    /\ self.available_wells # 0
    /\ CeilDiv(total_needed(self.params, gs), self.available_wells) > MaxPlates
    /\ genes' = gs /\ source_plate' = sp /\ timeout' = t
    /\ pc' = "done"
    /\ num_plates' = CeilDiv(total_needed(self.params, gs), self.available_wells)
    /\ plate_idx' = 0
    /\ layouts' = <<>> /\ tiers' = <<>>
    /\ result' = SolveResult("failed", <<>>, <<>>, "plate_limit")
    /\ picklist' = NoPicklist
    /\ invocations' = <<>>
    /\ reference' = NoReference
    /\ updated' = NoUpdate
    /\ UNCHANGED self

\* solve with num_plates <= 10: enters _solve_with_cpsat.
SolveBegin(gs, sp, t) ==
    /\ CanCall
    /\ self.available_wells # 0
    /\ CeilDiv(total_needed(self.params, gs), self.available_wells) <= MaxPlates
    /\ genes' = gs /\ source_plate' = sp /\ timeout' = t
    /\ pc' = "cpsat"
    /\ num_plates' = CeilDiv(total_needed(self.params, gs), self.available_wells)
    /\ plate_idx' = 0
    /\ layouts' = <<>> /\ tiers' = <<>>
    /\ result' = NoResult
    /\ picklist' = NoPicklist
    /\ invocations' = <<>>
    /\ reference' = NoReference
    /\ updated' = NoUpdate
    /\ UNCHANGED self

\* _solve_with_cpsat with num_plates = 0: math.ceil(len(genes) / 0) raises
\* inside the try block; the except clause returns FAILED.
CpsatDivideError ==
    /\ pc = "cpsat"
    /\ num_plates = 0
    /\ pc' = "done"
    /\ result' = SolveResult("failed", <<>>, <<>>, "solver_error")
    /\ UNCHANGED <<invocations, reference, updated, picklist, self, genes, source_plate, timeout, num_plates, plate_idx,
                   layouts, tiers>>

\* A plate is due: the only one of the single-plate path, or the next of the
\* multi-plate loop.
PlateDue ==
    /\ pc = "cpsat"
    /\ num_plates # 0
    /\ plate_idx < num_plates

\* "if plate_genes:" is false: the loop goes on to the next plate.
SkipEmptyChunk ==
    /\ PlateDue
    /\ num_plates # 1
    /\ PlateGenes(genes, num_plates, plate_idx) = <<>>
    /\ plate_idx' = plate_idx + 1
    /\ UNCHANGED <<invocations, reference, updated, picklist, self, genes, source_plate,
                   timeout, pc, num_plates, layouts, tiers, result>>

\* Fault variant of PlateSolved: the solver takes the wells of the layout
\* off its available_wells field.
PlateSolved_ConsumesWells(layout, tier) ==
    /\ layouts' = Append(layouts, layout)
    /\ tiers' = Append(tiers, tier)
    /\ plate_idx' = plate_idx + 1
    /\ pc' = "cpsat"
    /\ self' = [self EXCEPT !.available_wells = @ - Len(layout.wells)]
    /\ UNCHANGED <<reference, updated, picklist, genes, source_plate, timeout, num_plates, result>>

\* layouts.append(layout): the plate is done and the loop moves on.
PlateSolved(layout, tier) ==
    /\ layouts' = Append(layouts, layout)
    /\ tiers' = Append(tiers, tier)
    /\ plate_idx' = plate_idx + 1
    /\ pc' = "cpsat"
    /\ UNCHANGED <<reference, updated, picklist, self, genes, source_plate, timeout, num_plates, result>>

\* _solve_single_plate_cpsat with num_samples > num_positions: the heuristic
\* runs and no engine is invoked.
PlateOverfull ==
    /\ PlateDue
    /\ num_plates = 1 \/ PlateGenes(genes, num_plates, plate_idx) # <<>>
    /\ LET gs == PlateGenes(genes, num_plates, plate_idx)
       IN /\ Len(Samples(self.params, gs)) > Len(InnerCells(self))
          /\ \E layout \in {_solve_heuristic_improved(self, gs, source_plate, plate_idx)} :
                PlateSolved(layout, "heuristic")
          /\ invocations' = Append(invocations, Invocation(plate_idx, "heuristic", None))

\* Fault variant of PlateInvokeFull: the engine is called whatever the number
\* of samples (the "num_samples > num_positions" test is left out).
PlateInvokeFull_NoSizeTest ==
    /\ PlateDue
    /\ num_plates = 1 \/ PlateGenes(genes, num_plates, plate_idx) # <<>>
    /\ pc' = "full"
    /\ invocations' = Append(invocations,
                             Invocation(plate_idx, "full", PlateTimeout(timeout, num_plates)))
    /\ UNCHANGED <<reference, updated, picklist, self, genes, source_plate, timeout, num_plates, plate_idx,
                   layouts, tiers, result>>

\* _solve_single_plate_cpsat builds the full model and calls the engine.
PlateInvokeFull ==
    /\ PlateDue
    /\ num_plates = 1 \/ PlateGenes(genes, num_plates, plate_idx) # <<>>
    /\ LET gs == PlateGenes(genes, num_plates, plate_idx)
       IN Len(Samples(self.params, gs)) <= Len(InnerCells(self))
    /\ pc' = "full"
    /\ invocations' = Append(invocations,
                             Invocation(plate_idx, "full", PlateTimeout(timeout, num_plates)))
    /\ UNCHANGED <<reference, updated, picklist, self, genes, source_plate, timeout, num_plates, plate_idx,
                   layouts, tiers, result>>

\* The engine returns OPTIMAL or FEASIBLE on the full model, with one of the
\* model's solutions: the extracted solution is the plate's layout.
FullModelAccepted ==
    /\ pc = "full"
    /\ LET gs == PlateGenes(genes, num_plates, plate_idx)
           samples == Samples(self.params, gs)
           edge_wells == EdgeWells(self)
       IN \E sol \in FullSolutions(self, gs) :
            PlateSolved(_extract_solution_from_vars(
                            self, edge_wells, sol, samples, source_plate, plate_idx),
                        "full")
    /\ UNCHANGED invocations

\* The engine returns another status on the full model (INFEASIBLE only when
\* the model has no solution, UNKNOWN when the time limit ran out):
\* _solve_relaxed builds the relaxed model and calls the engine.
FullModelRejected ==
    /\ pc = "full"
    /\ pc' = "relaxed"
    /\ invocations' = Append(invocations,
                             Invocation(plate_idx, "relaxed", PlateTimeout(timeout, num_plates)))
    /\ UNCHANGED <<reference, updated, picklist, self, genes, source_plate, timeout, num_plates, plate_idx,
                   layouts, tiers, result>>

RelaxedModelAccepted ==
    /\ pc = "relaxed"
    /\ LET gs == PlateGenes(genes, num_plates, plate_idx)
           samples == Samples(self.params, gs)
           edge_wells == EdgeWells(self)
       IN \E sol \in RelaxedSolutions(self, gs) :
            PlateSolved(_extract_solution_from_vars(
                            self, edge_wells, sol, samples, source_plate, plate_idx),
                        "relaxed")
    /\ UNCHANGED invocations

\* The relaxed model is rejected as well: the heuristic runs.
RelaxedModelRejected ==
    /\ pc = "relaxed"
    /\ LET gs == PlateGenes(genes, num_plates, plate_idx)
       IN \E layout \in {_solve_heuristic_improved(self, gs, source_plate, plate_idx)} :
            PlateSolved(layout, "heuristic")
    /\ invocations' = Append(invocations, Invocation(plate_idx, "heuristic", None))

\* _solve_with_cpsat has returned: solve validates the layouts and returns.
\* Fault variant of SolveReturn: the result is built without the
\* "if layouts" test.
SolveReturn_NoEmptyCheck ==
    /\ pc = "cpsat"
    /\ num_plates # 0
    /\ plate_idx >= num_plates
    /\ pc' = "done"
    /\ \E violations \in {_validate_layouts(self, layouts)} :
          result' =
            IF \E i \in 1..Len(violations) : violations[i].severity = "error"
            THEN SolveResult("partial", layouts, violations, "violations")
            ELSE SolveResult("success", layouts, violations, "ok")
    /\ layouts' = <<>>
    /\ UNCHANGED <<invocations, reference, updated, picklist, self, genes, source_plate, timeout, num_plates, plate_idx, tiers>>

SolveReturn ==
    /\ pc = "cpsat"
    /\ num_plates # 0
    /\ plate_idx >= num_plates
    /\ pc' = "done"
    /\ IF layouts # <<>>
       THEN \E violations \in {_validate_layouts(self, layouts)} :
              result' =
                IF \E i \in 1..Len(violations) : violations[i].severity = "error"
                THEN SolveResult("partial", layouts, violations, "violations")
                ELSE SolveResult("success", layouts, violations, "ok")
       ELSE result' = SolveResult("failed", <<>>, <<>>, "no_layout")
    /\ layouts' = <<>>
    /\ UNCHANGED <<invocations, reference, updated, picklist, self, genes, source_plate, timeout, num_plates, plate_idx, tiers>>

-----------------------------------------------------------------------------
(* LayoutService.generate_picklist *)

PLATE_TYPE_NAMES(pt) ==
    CASE pt = 96 -> "Corning_96_Uplate"
      [] pt = 384 -> "384PP_AQ_BP"
      [] pt = 1536 -> "1536LDV_AQ_B2"
      [] OTHER -> "Corning_96_Uplate"

\* Fault variant of PicklistSourceWell: the source plate is searched first
\* and the well's own source_well is the fallback.
PicklistSourceWell_PlateFirst(well, sp) ==
    IF well.gene_symbol # None /\ find_well(sp, well.gene_symbol) # 0
    THEN sp.wells[find_well(sp, well.gene_symbol)].position
    ELSE well.source_well

\* "Find source well": the well's own source_well when it is set, else the
\* position of find_well(gene_symbol), else nothing.
PicklistSourceWell(well, sp) ==
    IF well.source_well # NoPos THEN well.source_well
    ELSE IF well.gene_symbol # None /\ find_well(sp, well.gene_symbol) # 0
    THEN sp.wells[find_well(sp, well.gene_symbol)].position
    ELSE NoPos

PicklistEntry(layout, well, sp, transfer_volume) ==
    [source_plate_barcode |-> sp.barcode,
     source_well |-> PicklistSourceWell(well, sp),
     source_plate_type |-> sp.plate_type,
     destination_plate_barcode |-> layout.plate_barcode,
     destination_plate_type |-> PLATE_TYPE_NAMES(layout.plate_type),
     destination_well |-> well.position,
     transfer_volume |-> transfer_volume,
     gene_symbol |-> IF well.gene_symbol # None THEN well.gene_symbol
                     ELSE well.content_type]

\* Fault variant of LayoutEntries: one entry per gene (its first replicate)
\* instead of one per well.
LayoutEntries_OnePerGene(layout, sp, transfer_volume) ==
    LET emits(i) == /\ layout.wells[i].content_type # "empty"
                    /\ layout.wells[i].replicate_index = 0
                    /\ PicklistSourceWell(layout.wells[i], sp) # NoPos
        kept == SelectSeq([i \in 1..Len(layout.wells) |-> i], emits)
    IN [j \in 1..Len(kept) |->
          PicklistEntry(layout, layout.wells[kept[j]], sp, transfer_volume)]

\* The entries of one layout: its wells in order, without the empty ones and
\* those with no source well.
LayoutEntries(layout, sp, transfer_volume) ==
    LET emits(i) == /\ layout.wells[i].content_type # "empty"
                    /\ PicklistSourceWell(layout.wells[i], sp) # NoPos
        kept == SelectSeq([i \in 1..Len(layout.wells) |-> i], emits)
    IN [j \in 1..Len(kept) |->
          PicklistEntry(layout, layout.wells[kept[j]], sp, transfer_volume)]

RECURSIVE EntriesFrom(_, _, _, _)
EntriesFrom(ls, sp, transfer_volume, k) ==
    IF k > Len(ls) THEN <<>>
    ELSE LayoutEntries(ls[k], sp, transfer_volume)
         \o EntriesFrom(ls, sp, transfer_volume, k + 1)

generate_picklist(ls, sp, transfer_volume) == EntriesFrom(ls, sp, transfer_volume, 1)

\* A picklist request for the layouts solve returned.
GeneratePicklist(sp, transfer_volume) ==
    /\ pc = "done"
    /\ pc' = "picked"
    /\ picklist' = [source_plate |-> sp,
                    transfer_volume |-> transfer_volume,
                    entries |-> generate_picklist(result.layouts, sp, transfer_volume)]
    /\ UNCHANGED <<reference, updated, invocations, self, genes, source_plate, timeout,
                   num_plates, plate_idx, layouts, tiers, result>>

Next ==
    \/ \E gs \in GeneLists, sp \in SourcePlates, t \in Timeouts :
          \/ SolveRaises(gs, sp, t)
          \/ SolveCapExceeded(gs, sp, t)
          \/ SolveBegin(gs, sp, t)
    \/ CpsatDivideError
    \/ SkipEmptyChunk
    \/ PlateOverfull
    \/ PlateInvokeFull
    \/ FullModelAccepted
    \/ FullModelRejected
    \/ RelaxedModelAccepted
    \/ RelaxedModelRejected
    \/ SolveReturn
    \/ \E sp \in PicklistSourcePlates, v \in RequestVolumes : GeneratePicklist(sp, v)

Spec == Init /\ [][Next]_vars

-----------------------------------------------------------------------------
(* Progress of a solve call *)

\* A step of the running call.  The call is sequential code: it goes on
\* until it blocks in the engine, and the engine returns a status (with a
\* solution when the status is OPTIMAL or FEASIBLE).
CallStep ==
    \/ CpsatDivideError
    \/ SkipEmptyChunk
    \/ PlateOverfull
    \/ PlateInvokeFull
    \/ FullModelRejected
    \/ FullModelAccepted
    \/ RelaxedModelAccepted
    \/ RelaxedModelRejected
    \/ SolveReturn

\* The designs of the progress specification: a 2 x 6 inner region and an
\* override for gene "A" that no placement without adjacency satisfies (4
\* replicates) or that needs a second plate (13 replicates).
LiveDesigns ==
    {d \in Designs :
        /\ d.edge_empty_layers = 3
        /\ "A" \in DOMAIN d.gene_configs
        /\ d.gene_configs["A"].replicates \in {4, 13}}

LiveInit == Init /\ self.params \in LiveDesigns

LiveNext ==
    \/ \E gs \in GeneLists, sp \in SourcePlates, t \in Timeouts : SolveBegin(gs, sp, t)
    \/ CallStep

LiveSpec == LiveInit /\ [][LiveNext]_vars /\ WF_vars(CallStep)

-----------------------------------------------------------------------------------------------------------------------------------------------------
(* A call repeated with the same arguments *)

\* solve called again with the arguments of the call that has just returned;
\* reference keeps the layouts that call returned.
SolveAgain ==
    /\ pc = "done"
    /\ self.available_wells # 0
    /\ CeilDiv(total_needed(self.params, genes), self.available_wells) <= MaxPlates
    /\ pc' = "cpsat"
    /\ num_plates' = CeilDiv(total_needed(self.params, genes), self.available_wells)
    /\ plate_idx' = 0
    /\ layouts' = <<>> /\ tiers' = <<>>
    /\ result' = NoResult
    /\ picklist' = NoPicklist
    /\ invocations' = <<>>
    /\ reference' = [tracked |-> TRUE, layouts |-> result.layouts]
    /\ updated' = NoUpdate
    /\ UNCHANGED <<self, genes, source_plate, timeout>>

\* The designs of the repeated call: a 96-well plate with three edge layers
\* (an inner region of 2 x 6 wells), one replicate per gene, no controls and
\* no overrides.
RepeatDesigns ==
    {d \in Designs :
        /\ d.plate_type = 96
        /\ d.replicates = 1
        /\ d.edge_empty_layers = 3
        /\ d.controls = <<>>
        /\ d.gene_configs = <<>>}

RepeatInit == Init /\ self.params \in RepeatDesigns

\* Calls with one gene, and their repetition.
RepeatNext ==
    \/ \E gs \in {q \in GeneLists : Len(q) = 1}, sp \in SourcePlates, t \in Timeouts :
          SolveBegin(gs, sp, t)
    \/ SolveAgain
    \/ PlateInvokeFull
    \/ FullModelAccepted
    \/ FullModelRejected
    \/ RelaxedModelAccepted
    \/ RelaxedModelRejected
    \/ SolveReturn

RepeatSpec == RepeatInit /\ [][RepeatNext]_vars

-----------------------------------------------------------------------------
(* LayoutService.update_layout *)

\* PlateLayout.get_well: the index of the first well at the position, 0 when
\* there is none.
get_well(layout, position) ==
    IF \E i \in 1..Len(layout.wells) : layout.wells[i].position = position
    THEN CHOOSE i \in 1..Len(layout.wells) :
            /\ layout.wells[i].position = position
            /\ \A j \in 1..(i - 1) : layout.wells[j].position # position
    ELSE 0

\* LayoutWell(position=..., row=place.row, col=place.col, content_type=
\* content.content_type, ...): the well of place with the content of content.
SwappedWell(position, place, content) ==
    [position |-> position, row |-> place.row, col |-> place.col,
     content_type |-> content.content_type,
     gene_symbol |-> content.gene_symbol,
     replicate_index |-> content.replicate_index,
     source_plate |-> content.source_plate,
     source_well |-> content.source_well]

\* Fault variant of update_layout: the well at to_position keeps its content
\* (the content is copied, not exchanged).
update_layout_OneWay(layout, from_position, to_position) ==
    LET from_well == get_well(layout, from_position)
        to_well == get_well(layout, to_position)
    IN IF from_well = 0 \/ to_well = 0 THEN layout
       ELSE [plate_barcode |-> layout.plate_barcode,
             plate_type |-> layout.plate_type,
             plate_index |-> layout.plate_index,
             wells |-> [i \in 1..Len(layout.wells) |->
                 IF layout.wells[i].position = from_position
                 THEN SwappedWell(from_position, layout.wells[from_well],
                                  layout.wells[to_well])
                 ELSE layout.wells[i]]]

update_layout(layout, from_position, to_position) ==
    LET from_well == get_well(layout, from_position)
        to_well == get_well(layout, to_position)
    IN IF from_well = 0 \/ to_well = 0 THEN layout
       ELSE [plate_barcode |-> layout.plate_barcode,
             plate_type |-> layout.plate_type,
             plate_index |-> layout.plate_index,
             wells |-> [i \in 1..Len(layout.wells) |->
                 IF layout.wells[i].position = from_position
                 THEN SwappedWell(from_position, layout.wells[from_well],
                                  layout.wells[to_well])
                 ELSE IF layout.wells[i].position = to_position
                 THEN SwappedWell(to_position, layout.wells[to_well],
                                  layout.wells[from_well])
                 ELSE layout.wells[i]]]

\* The positions of an update request: the corner well "A01", the inner
\* wells "D04", "D05", "E04" and "E05", and "Z99", which no plate of the
\* model has.
RequestPositions ==
    {_format_position(0, 0), _format_position(3, 3), _format_position(3, 4),
     _format_position(4, 3), _format_position(4, 4), <<90, 57, 57>>}

\* PUT /update on the k-th layout of the returned result.
UpdateLayout(k, from_position, to_position) ==
    /\ pc = "done"
    /\ k \in 1..Len(result.layouts)
    /\ updated' = [requested |-> TRUE,
                   layout |-> result.layouts[k],
                   from_position |-> from_position,
                   to_position |-> to_position,
                   returned |-> update_layout(result.layouts[k],
                                              from_position, to_position)]
    /\ UNCHANGED <<self, genes, source_plate, timeout, pc, num_plates, plate_idx,
                   layouts, tiers, result, picklist, invocations, reference>>

UpdateInit == Init /\ self.params \in RepeatDesigns

\* Calls with one gene that the full model settles, and update requests on
\* their layouts.
UpdateNext ==
    \/ \E gs \in {q \in GeneLists : Len(q) = 1}, sp \in SourcePlates, t \in Timeouts :
          SolveBegin(gs, sp, t)
    \/ PlateInvokeFull
    \/ FullModelAccepted
    \/ SolveReturn
    \/ \E k \in 1..MaxPlates, from_position \in RequestPositions,
          to_position \in RequestPositions :
          UpdateLayout(k, from_position, to_position)

UpdateSpec == UpdateInit /\ [][UpdateNext]_vars

-----
(* The validator on a 96-well plate with one edge layer *)

\* The default design of a 96-well plate but for the replicate count: one
\* replicate per gene, one edge layer (an inner region of 6 x 10 wells).
ValidatorDesign ==
    [plate_type |-> 96, replicates |-> 1, edge_empty_layers |-> 1,
     controls |-> <<>>, transfer_volume |-> 25, gene_configs |-> <<>>]

\* The inner cells of quadrant q, in row-major order (q as the validator
\* numbers the quadrants).
QuadrantCells(s, q) ==
    LET mid_r == s.rows \div 2
        mid_c == s.cols \div 2
        InQuadrant(cell) ==
            (IF cell[1] < mid_r THEN 0 ELSE 2) + (IF cell[2] < mid_c THEN 0 ELSE 1) = q
    IN SelectSeq(InnerCells(s), InQuadrant)

\* An assignment that puts n[q] instances into quadrant q, for each q.
QuadrantSolution(s, n) ==
    SubSeq(QuadrantCells(s, 0), 1, n[1]) \o SubSeq(QuadrantCells(s, 1), 1, n[2])
    \o SubSeq(QuadrantCells(s, 2), 1, n[3]) \o SubSeq(QuadrantCells(s, 3), 1, n[4])

\* The labels of n genes.
GeneLabels(n) == [i \in 1..n |-> ToString(i)]

\* The assignments of the full model of the plate, for as many genes as the
\* assignment has instances, that fill each quadrant with up to
\* MaxQuadrantSamples instances.
ValidatorSolutions(s) ==
    {sol \in {QuadrantSolution(s, n) :
                n \in (0..MaxQuadrantSamples) \X (0..MaxQuadrantSamples)
                      \X (0..MaxQuadrantSamples) \X (0..MaxQuadrantSamples)} :
        LET samples == Samples(s.params, GeneLabels(Len(sol)))
        IN /\ Len(sol) >= 1
           /\ \A j \in 1..Len(sol) : \A i \in 1..(j - 1) :
                 PairOK(s, samples, TRUE, i, j, sol[i], sol[j])}

\* The state of a solve call on ValidatorDesign after the engine accepted the
\* full model of its single plate: the genes are distinct labels with one
\* replicate each.
ValidatorInit ==
    \E s \in {NewSolver(ValidatorDesign)}, sp \in SourcePlates :
      \E sol \in ValidatorSolutions(s) :
        LET gs == GeneLabels(Len(sol))
        IN /\ self = s
           /\ genes = gs
           /\ source_plate = sp
           /\ timeout \in Timeouts
           /\ pc = "cpsat"
           /\ num_plates = 1
           /\ plate_idx = 1
           /\ layouts = <<_extract_solution_from_vars(
                              s, EdgeWellsOf(s.rows, s.cols, s.edge), sol,
                              Samples(s.params, gs), sp, 0)>>
           /\ tiers = <<"full">>
           /\ result = NoResult
           /\ picklist = NoPicklist
           /\ invocations = <<Invocation(0, "full", timeout)>>
           /\ reference = NoReference
           /\ updated = NoUpdate

\* The call returns: solve validates the layout.
ValidatorNext == SolveReturn

ValidatorSpec == ValidatorInit /\ [][ValidatorNext]_vars

-----------------------------------------------------------------------------
(* Layouts of every plate kind *)

\* The designs of the plate kinds: one replicate per gene, one edge layer.
PlateKindDesigns ==
    {[plate_type |-> pt, replicates |-> 1, edge_empty_layers |-> 1,
      controls |-> <<>>, transfer_volume |-> 25, gene_configs |-> <<>>] :
        pt \in PlateKinds}

\* The state of a solve call for the one gene "A" on a design of a plate kind
\* after the engine accepted the full model of its single plate, with the
\* sample in one of the first MaxPlacedCells inner cells.
PlateKindInit ==
    \E s \in {NewSolver(params) : params \in PlateKindDesigns}, sp \in SourcePlates :
      \E sol \in {a \in FullSolutions(s, <<"A">>) :
                     \E i \in 1..Min(MaxPlacedCells, Len(InnerCells(s))) :
                        InnerCells(s)[i] = a[1]} :
           /\ self = s
           /\ genes = <<"A">>
           /\ source_plate = sp
           /\ timeout \in Timeouts
           /\ pc = "cpsat"
           /\ num_plates = 1
           /\ plate_idx = 1
           /\ layouts = <<_extract_solution_from_vars(
                              s, EdgeWellsOf(s.rows, s.cols, s.edge), sol,
                              Samples(s.params, <<"A">>), sp, 0)>>
           /\ tiers = <<"full">>
           /\ result = NoResult
           /\ picklist = NoPicklist
           /\ invocations = <<Invocation(0, "full", timeout)>>
           /\ reference = NoReference
           /\ updated = NoUpdate

\* The call returns the layout.
PlateKindNext == SolveReturn

PlateKindSpec == PlateKindInit /\ [][PlateKindNext]_vars

-----------------------------------------------------------------------------
(* Properties *)

Returned == pc = "done"

TierSet == SeqToSet(tiers)

PlateCells(s) == (0..(s.rows - 1)) \X (0..(s.cols - 1))

SampleWells(layout) ==
    {i \in 1..Len(layout.wells) : layout.wells[i].content_type = "sample"}

\* ceil(N / K) of the call's inputs (K # 0).
DemandPlates == CeilDiv(total_needed(self.params, genes), self.available_wells)

\* Two sample wells of one layout with the same label at Chebyshev distance 1.
AdjacentPairs(layout) ==
    {pair \in SampleWells(layout) \X SampleWells(layout) :
        LET w1 == layout.wells[pair[1]]
            w2 == layout.wells[pair[2]]
        IN /\ pair[1] < pair[2]
           /\ w1.gene_symbol = w2.gene_symbol
           /\ Abs(w1.row - w2.row) <= 1
           /\ Abs(w1.col - w2.col) <= 1}

\* The number of sample wells labelled g over all returned layouts.
RECURSIVE SampleCountFrom(_, _)
SampleCountFrom(g, k) ==
    IF k > Len(result.layouts) THEN 0
    ELSE Cardinality({i \in SampleWells(result.layouts[k]) :
                        result.layouts[k].wells[i].gene_symbol = g})
         + SampleCountFrom(g, k + 1)

SampleCount(g) == SampleCountFrom(g, 1)

\* C1 (tiling): every layout solve returns, whichever tier produced it, has
\* exactly rows * cols wells and every (row, col) of the plate is the
\* coordinate of exactly one of them.
C1_Tiling ==
    \A k \in 1..Len(result.layouts) :
        LET wells == result.layouts[k].wells
        IN /\ Len(wells) = self.rows * self.cols
           /\ {<<wells[i].row, wells[i].col>> : i \in 1..Len(wells)} = PlateCells(self)

\* A returned success whose layout comes from a CP-SAT tier and holds two or
\* more samples, next to the edge and empty wells.
C1_Witness ==
    /\ Returned
    /\ result.status = "success"
    /\ \E k \in 1..Len(result.layouts) :
          /\ tiers[k] \in {"full", "relaxed"}
          /\ Cardinality(SampleWells(result.layouts[k])) >= 2

\* C2 (edge exclusion): in every layout solve returns, every well in the
\* edge ring (row < edge, row >= rows - edge, col < edge or col >= cols -
\* edge) is empty.
C2_EdgeExclusion ==
    \A k \in 1..Len(result.layouts) :
        \A i \in 1..Len(result.layouts[k].wells) :
            LET w == result.layouts[k].wells[i]
            IN IsEdge(self, w.row, w.col) => w.content_type = "empty"

\* A returned heuristic layout in which same-label samples are adjacent: the
\* forced row-major placement has acted.
C2_Witness ==
    /\ Returned
    /\ \E k \in 1..Len(result.layouts) :
          /\ tiers[k] = "heuristic"
          /\ AdjacentPairs(result.layouts[k]) # {}

\* C3 (cardinality): in every success result, each gene g of the gene list
\* has exactly replicates_for(g) sample wells over all returned layouts.
C3_Cardinality ==
    (Returned /\ result.status = "success") =>
        \A g \in SeqToSet(genes) :
            SampleCount(g) = get_replicates_for_gene(self.params, g)

\* C4 (non-adjacency is hard): a success result has no two 8-adjacent sample
\* wells with the same label in one layout; a returned layout with such a
\* pair comes with status partial and the pair among the violations.
C4_NonAdjacencyHard ==
    Returned =>
        \A k \in 1..Len(result.layouts) :
            \A pair \in AdjacentPairs(result.layouts[k]) :
                /\ result.status = "partial"
                /\ \E v \in 1..Len(result.violations) :
                      LET wells == result.layouts[k].wells
                      IN SeqToSet(result.violations[v].affected_wells)
                           = {wells[pair[1]].position, wells[pair[2]].position}

\* C5 (capacity cap): with N the replicate and control demand and K # 0 the
\* available wells, a call with ceil(N / K) > 10 returns failed with no
\* layouts and the plate-limit message without any tier having run, and a
\* call with ceil(N / K) <= 10 never returns the plate-limit failure.
C5_CapacityCap ==
    (pc \in {"cpsat", "full", "relaxed", "done"} /\ self.available_wells # 0) =>
        /\ DemandPlates > 10 =>
              /\ pc = "done"
              /\ result.status = "failed"
              /\ result.layouts = <<>>
              /\ result.message = "plate_limit"
              /\ layouts = <<>>
              /\ tiers = <<>>
        /\ DemandPlates <= 10 => result.message # "plate_limit"

\* A call with a non-empty gene list that needs more than 10 plates has
\* returned.
C5_Witness ==
    /\ Returned
    /\ self.available_wells # 0
    /\ genes # <<>>
    /\ DemandPlates > 10
    /\ result.status = "failed"

\* The i-th contiguous chunk (0-based) of the gene list for P plates.
ChunkOf(i, P) ==
    LET c == CeilDiv(Len(genes), P)
    IN {genes[j] : j \in {n \in 1..Len(genes) : i * c < n /\ n <= (i + 1) * c}}

\* C6 (multi-plate partition): a call whose plate count P is in 2..10 returns
\* exactly P layouts, and layout i holds sample wells only for the genes of
\* the i-th contiguous chunk of ceil(len(genes) / P) genes.
C6_MultiPlatePartition ==
    (Returned /\ self.available_wells # 0 /\ DemandPlates > 1 /\ DemandPlates <= 10) =>
        /\ Len(result.layouts) = DemandPlates
        /\ \A k \in 1..Len(result.layouts) :
              \A i \in SampleWells(result.layouts[k]) :
                  result.layouts[k].wells[i].gene_symbol \in ChunkOf(k - 1, DemandPlates)

\* C7 (layout ordering): the i-th returned layout (0-based) has plate_index i
\* and plate_barcode "plate_{i+1}".
C7_LayoutOrdering ==
    \A k \in 1..Len(result.layouts) :
        /\ result.layouts[k].plate_index = k - 1
        /\ result.layouts[k].plate_barcode = <<"plate_", k>>

\* A multi-plate call has returned two or more layouts.
C7_Witness ==
    /\ Returned
    /\ Len(result.layouts) >= 2

HasErrorViolation ==
    \E v \in 1..Len(result.violations) : result.violations[v].severity = "error"

\* C8 (status semantics): a failed result has no layouts, a success or
\* partial result has some, and the status is partial exactly when there are
\* layouts and a violation of severity error.
C8_StatusSemantics ==
    Returned =>
        /\ result.status \in {"success", "partial", "failed"}
        /\ result.status = "failed" => result.layouts = <<>>
        /\ result.status \in {"success", "partial"} => result.layouts # <<>>
        /\ result.status = "partial" <=> (result.layouts # <<>> /\ HasErrorViolation)

\* A result with layouts and violations has been returned.
C8_Witness ==
    /\ Returned
    /\ result.layouts # <<>>
    /\ result.violations # <<>>

\* C9 (solve never raises): every solve call returns a SolveResult; no
\* exception leaves the call.
C9_NeverRaises == pc # "raised"

\* C10 (relaxation is reported): when a returned layout comes from the relaxed
\* model or the heuristic, relaxed_constraints is non-empty and lists only
\* "row_dispersion" and "col_dispersion"; it is empty only when every layout
\* comes from the full model.
C10_RelaxationReported ==
    (Returned /\ result.layouts # <<>>) =>
        /\ SeqToSet(result.relaxed_constraints) \subseteq {"row_dispersion", "col_dispersion"}
        /\ result.relaxed_constraints = <<>> <=> TierSet \subseteq {"full"}

\* ContentType of the wells a control of the given ControlType occupies.
ControlContent(type) ==
    CASE type = "positive" -> "positive_control"
      [] type = "negative" -> "negative_control"
      [] type = "blank" -> "blank"

RECURSIVE ContentCountFrom(_, _)
ContentCountFrom(content, k) ==
    IF k > Len(result.layouts) THEN 0
    ELSE Cardinality({i \in 1..Len(result.layouts[k].wells) :
                        result.layouts[k].wells[i].content_type = content})
         + ContentCountFrom(content, k + 1)

\* C11 (controls are placed): when solve returns layouts for a design with
\* controls, each control entry with count n has n wells of its control
\* content type in the returned layouts.
C11_ControlsPlaced ==
    (Returned /\ result.layouts # <<>>) =>
        \A i \in 1..Len(self.params.controls) :
            ContentCountFrom(ControlContent(self.params.controls[i].type), 1)
                = self.params.controls[i].count

Picked == pc = "picked"

\* The position of the first well of the source plate with the label, NoPos
\* when no well carries it.
FirstSourceWell(sp, g) ==
    LET at == {j \in 1..Len(sp.wells) : sp.wells[j].gene_symbol = g}
    IN IF at = {} THEN NoPos
       ELSE sp.wells[CHOOSE j \in at : \A m \in at : j <= m].position

\* C12 (source-well attribution): every sample well of every returned layout
\* names the source plate's barcode and, as source_well, the position of the
\* first source-plate well with the well's label, or nothing when no source
\* well carries the label.
C12_SourceAttribution ==
    \A k \in 1..Len(result.layouts) :
        \A i \in SampleWells(result.layouts[k]) :
            LET w == result.layouts[k].wells[i]
            IN /\ w.source_plate = source_plate.barcode
               /\ w.source_well = FirstSourceWell(source_plate, w.gene_symbol)

\* Returned layouts hold a sample of gene A, which two source wells carry,
\* and a sample of gene B, which none carries.
C12_Witness ==
    /\ Returned
    /\ \E k \in 1..Len(result.layouts) : \E i \in SampleWells(result.layouts[k]) :
          /\ result.layouts[k].wells[i].gene_symbol = "A"
          /\ result.layouts[k].wells[i].source_well = <<65, 48, 49>>
    /\ \E k \in 1..Len(result.layouts) : \E i \in SampleWells(result.layouts[k]) :
          /\ result.layouts[k].wells[i].gene_symbol = "B"
          /\ result.layouts[k].wells[i].source_well = NoPos

\* The number of non-empty wells over all returned layouts.
RECURSIVE NonEmptyCountFrom(_)
NonEmptyCountFrom(k) ==
    IF k > Len(result.layouts) THEN 0
    ELSE Cardinality({i \in 1..Len(result.layouts[k].wells) :
                        result.layouts[k].wells[i].content_type # "empty"})
         + NonEmptyCountFrom(k + 1)

\* The picklist was requested with the source plate of the solve call.
SamePlatePicklist ==
    /\ Picked
    /\ result.status = "success"
    /\ picklist.source_plate = source_plate

\* Every gene of the gene list has a well in the source plate.
GenesFromSourcePlate ==
    \A g \in SeqToSet(genes) : FirstSourceWell(source_plate, g) # NoPos

\* C13 (picklist conservation), as stated: for every success result, the
\* picklist generated from its layouts and the same source plate has as many
\* entries as the layouts have non-empty wells.
C13_Conservation_AsStated ==
    SamePlatePicklist => Len(picklist.entries) = NonEmptyCountFrom(1)

\* C13 (picklist conservation), amended: for every success result whose genes
\* all have a well in the source plate, the picklist generated from its
\* layouts and the same source plate has as many entries as the layouts have
\* non-empty wells.
C13_Conservation ==
    (SamePlatePicklist /\ GenesFromSourcePlate) =>
        Len(picklist.entries) = NonEmptyCountFrom(1)

\* A picklist of two or more entries for a result whose genes are all in the
\* source plate.
C13_Witness ==
    /\ SamePlatePicklist
    /\ GenesFromSourcePlate
    /\ Len(picklist.entries) >= 2

\* C14 (picklist transfer volume): each entry carries the per-sample override
\* volume of its label when the design has one, and the default transfer
\* volume of the request otherwise.
C14_TransferVolume ==
    Picked =>
        \A n \in 1..Len(picklist.entries) :
            LET e == picklist.entries[n]
            IN e.transfer_volume =
                 IF e.gene_symbol \in DOMAIN self.params.gene_configs
                 THEN self.params.gene_configs[e.gene_symbol].transfer_volume
                 ELSE picklist.transfer_volume

\* The source well the picklist is to name for a well: its own, else the
\* first source-plate well with its label, else none.
ResolvedSource(w, sp) ==
    IF w.source_well # NoPos THEN w.source_well
    ELSE FirstSourceWell(sp, w.gene_symbol)

\* The <<layout, well>> index pairs of the non-empty wells with a resolved
\* source, in layout order and, within a layout, in well order.
RECURSIVE ResolvedWellsFrom(_, _)
ResolvedWellsFrom(sp, k) ==
    IF k > Len(result.layouts) THEN <<>>
    ELSE LET wells == result.layouts[k].wells
             resolved(i) == /\ wells[i].content_type # "empty"
                            /\ ResolvedSource(wells[i], sp) # NoPos
             kept == SelectSeq([i \in 1..Len(wells) |-> i], resolved)
         IN [j \in 1..Len(kept) |-> <<k, kept[j]>>] \o ResolvedWellsFrom(sp, k + 1)

\* C15 (picklist source resolution): the picklist has one entry for each
\* non-empty well with a resolved source (its own source_well, else the first
\* matching source-plate well) and none for the others; the entries are in
\* layout order and well order, and each names its well's position and its
\* layout's barcode as destination.
C15_SourceResolution ==
    Picked =>
        \E expected \in {ResolvedWellsFrom(picklist.source_plate, 1)} :
            /\ Len(picklist.entries) = Len(expected)
            /\ \A n \in 1..Len(expected) :
                  LET layout == result.layouts[expected[n][1]]
                      w == layout.wells[expected[n][2]]
                      e == picklist.entries[n]
                  IN /\ e.source_well = ResolvedSource(w, picklist.source_plate)
                     /\ e.destination_well = w.position
                     /\ e.destination_plate_barcode = layout.plate_barcode

\* A picklist requested with plate SRC2: gene A's entry keeps the well's own
\* source well A01 (SRC2 holds A in C01), gene B's well has none of its own
\* and gets SRC2's first B well.
C15_Witness ==
    /\ Picked
    /\ picklist.source_plate.barcode = "SRC2"
    /\ \E n \in 1..Len(picklist.entries) :
          /\ picklist.entries[n].gene_symbol = "A"
          /\ picklist.entries[n].source_well = <<65, 48, 49>>
    /\ \E n \in 1..Len(picklist.entries) :
          /\ picklist.entries[n].gene_symbol = "B"
          /\ picklist.entries[n].source_well = <<66, 48, 49>>

AdjacencyViolations ==
    {v \in 1..Len(result.violations) :
        result.violations[v].constraint_name = "no_adjacent_same_gene"}

RECURSIVE AdjacentPairCountFrom(_)
AdjacentPairCountFrom(k) ==
    IF k > Len(result.layouts) THEN 0
    ELSE Cardinality(AdjacentPairs(result.layouts[k])) + AdjacentPairCountFrom(k + 1)

PairPositions(layout, pair) ==
    {layout.wells[pair[1]].position, layout.wells[pair[2]].position}

\* C16 (validator adjacency check): the violations of a returned result hold
\* exactly one no_adjacent_same_gene entry, of severity warning and naming
\* both positions, for each unordered pair of 8-adjacent sample wells with
\* the same label in a layout, and none for any other pair.
C16_ValidatorAdjacency ==
    Returned =>
        /\ Cardinality(AdjacencyViolations) = AdjacentPairCountFrom(1)
        /\ \A v \in AdjacencyViolations :
              /\ result.violations[v].severity = "warning"
              /\ Len(result.violations[v].affected_wells) = 2
              /\ \E k \in 1..Len(result.layouts) :
                    \E pair \in AdjacentPairs(result.layouts[k]) :
                        SeqToSet(result.violations[v].affected_wells)
                          = PairPositions(result.layouts[k], pair)
        /\ \A k \in 1..Len(result.layouts) :
              \A pair \in AdjacentPairs(result.layouts[k]) :
                  \E v \in AdjacencyViolations :
                      SeqToSet(result.violations[v].affected_wells)
                        = PairPositions(result.layouts[k], pair)

\* A returned layout with four same-label samples (forced next to each
\* other), some pairs of them adjacent and some not.
C16_Witness ==
    /\ Returned
    /\ \E k \in 1..Len(result.layouts) :
          /\ Cardinality(SampleWells(result.layouts[k])) = 4
          /\ Cardinality(AdjacentPairs(result.layouts[k])) \in 1..5

\* The number of sample wells of the layout in the quadrant above or below
\* the middle row (rows / 2) and left or right of the middle column (cols / 2).
QuadrantSamples(layout, upper, left) ==
    Cardinality({i \in SampleWells(layout) :
                    /\ (layout.wells[i].row < self.rows \div 2) = upper
                    /\ (layout.wells[i].col < self.cols \div 2) = left})

\* The layouts of the result whose four quadrant counts are all positive and
\* differ by more than 5.
UnbalancedLayouts ==
    {k \in 1..Len(result.layouts) :
        LET q == {QuadrantSamples(result.layouts[k], u, l) : u, l \in BOOLEAN}
        IN /\ \A x \in q : x > 0
           /\ \E x, y \in q : x - y > 5}

QuadrantViolations ==
    {i \in 1..Len(result.violations) :
        result.violations[i].constraint_name = "quadrant_balance"}

\* C17: the validator emits one quadrant_balance warning for a layout whose
\* quadrant counts are all positive and differ by more than 5 between the
\* fullest and the emptiest quadrant, and none for any other layout (none
\* when a quadrant holds no sample).
C17_ValidatorQuadrant ==
    Returned =>
        /\ Cardinality(QuadrantViolations) = Cardinality(UnbalancedLayouts)
        /\ \A i \in QuadrantViolations : result.violations[i].severity = "warning"

\* A returned result with a quadrant_balance warning for its layout.
C17_Witness ==
    /\ Returned
    /\ UnbalancedLayouts # {}
    /\ QuadrantViolations # {}

\* A position string that matches ^[A-Z][0-9]{2,}$.
WellFormedPosition(position) ==
    /\ Len(position) >= 3
    /\ position[1] \in 65..90
    /\ \A i \in 2..Len(position) : position[i] \in 48..57

\* The decimal value of the digits of a position string.
RECURSIVE DigitsValue(_)
DigitsValue(d) ==
    IF d = <<>> THEN 0 ELSE 10 * DigitsValue(SubSeq(d, 1, Len(d) - 1)) + (d[Len(d)] - 48)

\* C18: the position of every well of a returned layout is the letter of
\* its row (A for row 0) followed by its 1-based column in at least two
\* digits, a string that matches ^[A-Z][0-9]{2,}$.
C18_PositionsWellFormed ==
    Returned =>
        \A k \in 1..Len(result.layouts) :
            \A i \in 1..Len(result.layouts[k].wells) :
                LET w == result.layouts[k].wells[i]
                IN /\ WellFormedPosition(w.position)
                   /\ w.position[1] = 65 + w.row
                   /\ DigitsValue(Tail(w.position)) = w.col + 1

\* C19: the available-wells number of the solver (the capacity K of a plate)
\* is the number of wells inside the edge ring, the cells the solver can
\* place into.
C19_CapacityIsInnerSize ==
    self.available_wells = Len(InnerCells(self))

\* C20: a solve call never runs with a replicate count below 1 for a gene of
\* its list (a design with such a count cannot be constructed).
C20_ReplicatesPositive ==
    pc # "idle" =>
        \A i \in 1..Len(genes) : get_replicates_for_gene(self.params, genes[i]) >= 1

\* The plates that have a run in the log, and the tiers run for a plate in
\* the order of the log.
LoggedPlates == {invocations[i].plate : i \in 1..Len(invocations)}

RECURSIVE TierRunsFrom(_, _)
TierRunsFrom(p, i) ==
    IF i > Len(invocations) THEN <<>>
    ELSE (IF invocations[i].plate = p THEN <<invocations[i].tier>> ELSE <<>>)
         \o TierRunsFrom(p, i + 1)

TierRuns(p) == TierRunsFrom(p, 1)

\* The plate of the k-th layout: the k-th plate of the log.
PlateOfLayout(k) ==
    CHOOSE p \in LoggedPlates : Cardinality({q \in LoggedPlates : q < p}) = k - 1

\* The plate's instance count exceeds its inner well count.
Overfull(p) ==
    Len(Samples(self.params, PlateGenes(genes, num_plates, p))) > Len(InnerCells(self))

\* C23: for every plate the tiers run in the order full, relaxed, heuristic,
\* each after the one before it was rejected; the heuristic runs alone, with
\* no engine call, exactly when the plate's instance count exceeds its inner
\* well count; the plate's layout comes from the last tier run, so no tier
\* runs after one was accepted.
C23_TierOrdering ==
    /\ \A i, j \in 1..Len(invocations) :
          i < j => invocations[i].plate <= invocations[j].plate
    /\ \A p \in LoggedPlates :
          /\ TierRuns(p) \in {<<"full">>, <<"full", "relaxed">>,
                              <<"full", "relaxed", "heuristic">>, <<"heuristic">>}
          /\ (TierRuns(p) = <<"heuristic">>) <=> Overfull(p)
    /\ Len(tiers) <= Cardinality(LoggedPlates)
    /\ \A k \in 1..Len(tiers) :
          LET runs == TierRuns(PlateOfLayout(k))
          IN tiers[k] = runs[Len(runs)]
    /\ pc \in {"cpsat", "done", "picked"} => Len(tiers) = Cardinality(LoggedPlates)

\* A returned call with a plate on which all three tiers ran.
C23_Witness ==
    /\ Returned
    /\ \E p \in LoggedPlates : TierRuns(p) = <<"full", "relaxed", "heuristic">>

\* The engine invocations of the log, and the sum of their time limits.
EngineRuns == {i \in 1..Len(invocations) : invocations[i].tier \in {"full", "relaxed"}}

RECURSIVE LimitSumFrom(_)
LimitSumFrom(i) ==
    IF i > Len(invocations) THEN 0
    ELSE (IF i \in EngineRuns THEN invocations[i].limit ELSE 0) + LimitSumFrom(i + 1)

\* C24: the time limits handed to the engine invocations of one solve call
\* sum to at most the call's timeout.
C24_TimeoutTotalBudget ==
    LimitSumFrom(1) <= timeout

\* C25: on the multi-plate path every engine invocation gets the time limit
\* timeout / num_plates, a strictly positive number.
C25_PerPlateBudget ==
    num_plates > 1 =>
        \A i \in EngineRuns :
            /\ invocations[i].limit > 0
            /\ invocations[i].limit * num_plates <= timeout

\* A solve call is running.
InCall == pc \in {"cpsat", "full", "relaxed"}

\* The runs of the log for plate p by the given tiers.
RunsOf(p, which) ==
    {i \in 1..Len(invocations) : invocations[i].plate = p /\ invocations[i].tier \in which}

\* At most two engine invocations and one heuristic run per plate.
InvocationBound ==
    \A p \in LoggedPlates :
        /\ Cardinality(RunsOf(p, {"full", "relaxed"})) <= 2
        /\ Cardinality(RunsOf(p, {"heuristic"})) <= 1

\* C26 (termination): a solve call that is over has returned a SolveResult,
\* after at most two engine invocations and at most one heuristic run per
\* plate.
C26_Termination ==
    pc \in {"done", "raised"} => (pc = "done" /\ InvocationBound)

\* Under LiveSpec (the engine answers every invocation and the call keeps
\* running): a call that has entered _solve_with_cpsat returns, within the
\* invocation bound.
CallProgress ==
    /\ []InvocationBound
    /\ InCall ~> Returned

\* C28 (solve never returns partial): every violation the validator yields
\* has severity "warning", so a returned result is never partial, and a call
\* that produced at least one layout returns success.
C28_NeverPartial ==
    Returned =>
        /\ result.status # "partial"
        /\ \A i \in 1..Len(result.violations) : result.violations[i].severity = "warning"
        /\ result.layouts # <<>> => result.status = "success"

\* A success result that carries an adjacency violation.
C28_Witness ==
    /\ Returned
    /\ result.status = "success"
    /\ \E i \in 1..Len(result.violations) :
          result.violations[i].constraint_name = "no_adjacent_same_gene"

\* The sample wells of the layout that carry gene g.
GeneWells(layout, g) ==
    {i \in SampleWells(layout) : layout.wells[i].gene_symbol = g}

\* C29 (single-plate completeness): when the call plans one plate and the
\* inner region has at least one row and one column, the call returns one
\* layout, and for every gene of the list it holds exactly replicates_for(g)
\* sample wells, with the replicate indices 0 .. replicates_for(g) - 1 once
\* each, whichever tier produced it.
C29_SinglePlateComplete ==
    (Returned /\ num_plates = 1 /\ self.inner_rows > 0 /\ self.inner_cols > 0) =>
        /\ Len(result.layouts) = 1
        /\ \A k \in 1..Len(genes) :
              LET layout == result.layouts[1]
                  n == get_replicates_for_gene(self.params, genes[k])
                  wells == GeneWells(layout, genes[k])
              IN /\ Cardinality(wells) = n
                 /\ \A rep \in 0..(n - 1) :
                       Cardinality({i \in wells :
                           layout.wells[i].replicate_index = rep}) = 1

\* A single-plate layout of the heuristic in which the forced placement put
\* an instance next to one of its gene.
C29_Witness ==
    /\ Returned
    /\ num_plates = 1
    /\ tiers = <<"heuristic">>
    /\ Len(result.layouts) = 1
    /\ AdjacentPairs(result.layouts[1]) # {}

\* The sample wells of a layout in list order: for a layout of the heuristic,
\* the instances in the order of their placement.
PlacedWells(layout) ==
    LET is_sample(w) == w.content_type = "sample"
    IN SelectSeq(layout.wells, is_sample)

\* The inner wells that, when the j-th instance of the layout is placed, are
\* unoccupied, and those of them with no well of the instance's label in
\* their 8-neighbourhood.
FreeAt(placed, j) ==
    {cell \in SeqToSet(InnerCells(self)) :
        \A i \in 1..(j - 1) : <<placed[i].row, placed[i].col>> # cell}

GoodAt(placed, j) ==
    {cell \in FreeAt(placed, j) :
        \A i \in 1..(j - 1) :
            placed[i].gene_symbol = placed[j].gene_symbol =>
                Max(Abs(placed[i].row - cell[1]), Abs(placed[i].col - cell[2])) > 1}

\* The target of the j-th instance of the layout: its gene's index in the
\* plate's gene list and its replicate index give the target.
TargetAt(layout, placed, j) ==
    LET gs == PlateGenes(genes, num_plates, layout.plate_index)
        g_idx == (CHOOSE k \in 1..Len(gs) : gs[k] = placed[j].gene_symbol) - 1
    IN Target(self, g_idx, placed[j].replicate_index)

Chebyshev(p, q) == Max(Abs(p[1] - q[1]), Abs(p[2] - q[2]))

\* cell comes first in row-major order among the cells of S.
FirstRowMajor(cell, S) ==
    \A other \in S :
        cell[1] < other[1] \/ (cell[1] = other[1] /\ cell[2] <= other[2])

\* The layouts of the returned result that the heuristic produced.
HeuristicLayouts ==
    {result.layouts[k] : k \in {i \in 1..Len(result.layouts) : tiers[i] = "heuristic"}}

\* C27 (heuristic placement rule): in a layout of the heuristic every
\* instance sits on an inner well that was unoccupied when it was placed; if
\* then some unoccupied inner well had no well of its label in its
\* 8-neighbourhood, the instance sits on such a well at minimal Chebyshev
\* distance from its target; otherwise it sits on the first unoccupied inner
\* well in row-major order.
C27_HeuristicPlacement ==
    Returned =>
        \A layout \in HeuristicLayouts :
            LET placed == PlacedWells(layout)
            IN \A j \in 1..Len(placed) :
                  LET cell == <<placed[j].row, placed[j].col>>
                      good == GoodAt(placed, j)
                      free == FreeAt(placed, j)
                      t == TargetAt(layout, placed, j)
                  IN /\ cell \in free
                     /\ IF good # {}
                        THEN /\ cell \in good
                             /\ \A other \in good : Chebyshev(cell, t) <= Chebyshev(other, t)
                        ELSE FirstRowMajor(cell, free)

\* A layout of the heuristic with an instance the search put away from its
\* target and an instance placed by the row-major fallback.
C27_Witness ==
    /\ Returned
    /\ \E layout \in HeuristicLayouts :
          LET placed == PlacedWells(layout)
          IN /\ \E j \in 1..Len(placed) :
                   /\ GoodAt(placed, j) # {}
                   /\ <<placed[j].row, placed[j].col>> # TargetAt(layout, placed, j)
             /\ \E j \in 1..Len(placed) : GoodAt(placed, j) = {}

C21_Determinism ==
    (Returned /\ reference.tracked) => result.layouts = reference.layouts

\* The content of a well: what update_layout exchanges.
WellContent(w) ==
    <<w.content_type, w.gene_symbol, w.replicate_index, w.source_plate, w.source_well>>

HasPosition(layout, position) ==
    \E i \in 1..Len(layout.wells) : layout.wells[i].position = position

\* The content of the well of the layout at the position.
ContentAt(layout, position) ==
    WellContent(layout.wells[CHOOSE i \in 1..Len(layout.wells) :
                                 layout.wells[i].position = position])

====
